---- MODULE Spec2Model ----
(***************************************************************************)
(* Model of the provider execution engine of oxzk/vector:                  *)
(*   - MongoDB (vector/core/db.py): the process-wide store handle          *)
(*   - BaseProvider.run (vector/core/base.py): the task runner             *)
(*   - BaseDiscuzProvider (vector/core/discuz.py): request, user_info,     *)
(*     sign, views, get_users, poke, _send_poke, _extract_form_params      *)
(*   - Jkforum.handler and Afraid.handler (vector/providers)               *)
(* One asyncio event loop runs one run() coroutine; the only concurrency   *)
(* is the asyncio.gather fan-out inside views() and poke().  An HTTP       *)
(* exchange awaited by the main line is one step; each child task of a     *)
(* gather advances in steps of its own, one per HTTP exchange.             *)
(***************************************************************************)
EXTENDS Integers, Sequences, FiniteSets, Bags, TLC

(* ------------------------------ bounds -------------------------------- *)
\* number of record names the store may hold per provider type
MaxNames == 2
\* BaseDiscuzProvider.VIEW_COUNT: the width of the views() fan-out.  The
\* class attribute is 11 (discuz.py:18); the model runs a narrower fan-out.
VIEW_COUNT == 2
\* BaseDiscuzProvider.POKE_DEFAULT_NUM: the width of the poke() fan-out.
\* The class attribute is 10 (discuz.py:20); the model runs a narrower one.
POKE_DEFAULT_NUM == 2
\* number of input elements of a form handed to _extract_form_params
MaxInputs == 2
\* the instants datetime.utcnow() may return: 0..MaxClock
MaxClock == 2
\* run() invocations in one process, on the one store handle
MaxRuns == 2

(* ------------------------- program constants -------------------------- *)
STATUS_DISABLED == 0
STATUS_ENABLED == 1
MIN_USER_COUNT == 2
POKE_DEFAULT_ICONID == 3
DEFAULT_TIMEOUT == 30
\* the exit status of a process that has not exited
NoExit == -1

\* Python's None where a string is expected, and where a record name is
None == "<None>"
NoName == 0
Names == 1..MaxNames
UIDs == {"101", "102", "103"}

\* marker substrings searched in response bodies
LOGOUT_MARKER == "action=logout"
SIGN_TEXT == "signed-today"
SUCCESS_TEXT == "poke-sent"

(* ------------------------------ the store ----------------------------- *)
\* data of the Jkforum record called n: its own base URL and cookie
JkData(n) == [base_url |-> <<"https://site", n>>, cookie |-> <<"cookie", n>>]
\* data of the Afraid record called n: record 1 lacks its password
AfraidData(n) == [username |-> "user",
                  password |-> IF n = 1 THEN None ELSE "secret"]

Doc(pt, n, d, s, c, u) ==
  [provider_type |-> pt, name |-> n, data |-> d, status |-> s,
   created_at |-> c, updated_at |-> u]

\* the collections the run starts from: every Jkforum record is disabled or
\* enabled; the Afraid records are all enabled; all were written at instant 0
Stores ==
  { {Doc("jkforum", n, JkData(n), st[n], 0, 0) : n \in Names}
      \cup {Doc("afraid", n, AfraidData(n), STATUS_ENABLED, 0, 0) : n \in Names}
    : st \in [Names -> {STATUS_DISABLED, STATUS_ENABLED}] }

\* the sort with direction -1: by descending name
RECURSIVE SortByNameDesc(_)
SortByNameDesc(S) ==
  IF S = {} THEN <<>>
  ELSE LET d == CHOOSE x \in S : \A y \in S : x.name >= y.name
       IN <<d>> \o SortByNameDesc(S \ {d})

\* cursor.sort("name", 1): the documents of S as a sequence, by ascending name
RECURSIVE SortByName(_)
SortByName(S) ==
  IF S = {} THEN <<>>
  ELSE LET d == CHOOSE x \in S : \A y \in S : x.name <= y.name
       IN <<d>> \o SortByName(S \ {d})

\* get_provider without the name in its query
get_provider_any_name(coll, provider_type, name) ==
  LET query(d) == /\ d.provider_type = provider_type
                  /\ d.status = STATUS_ENABLED
      docs == SortByName({d \in coll : query(d)})
  IN [i \in 1..Len(docs) |-> <<docs[i].name, docs[i].data>>]

\* get_provider without the status in its query
get_provider_any_status(coll, provider_type, name) ==
  LET query(d) == /\ d.provider_type = provider_type
                  /\ (name # NoName => d.name = name)
      docs == SortByName({d \in coll : query(d)})
  IN [i \in 1..Len(docs) |-> <<docs[i].name, docs[i].data>>]

\* MongoDB.get_provider: enabled documents of the type (and name), sorted,
\* each as the pair (name, data)
get_provider(coll, provider_type, name) ==
  LET query(d) == /\ d.provider_type = provider_type
                  /\ d.status = STATUS_ENABLED
                  /\ (name # NoName => d.name = name)
      docs == SortByName({d \in coll : query(d)})
  IN [i \in 1..Len(docs) |-> <<docs[i].name, docs[i].data>>]

(* -------------------------- response bodies --------------------------- *)
\* A body is what the engine looks at: the marker substrings it contains,
\* the "ul.buddy li.bbda" elements, the form the selector finds, and the
\* ".creditl" region.
NoForm == [exists |-> FALSE, action |-> <<>>, inputs |-> <<>>]
Page(markers, buddy, form, creditl) ==
  [markers |-> markers, buddy |-> buddy, form |-> form, creditl |-> creditl]
Plain(markers) == Page(markers, <<>>, NoForm, <<>>)

\* one li.bbda element: whether it has a "div.avt a" link, the link's href
\* and the uid the href carries (None when UID_PATTERN does not match)
Li(avt, href, uid) == [avt |-> avt, href |-> href, uid |-> uid]
GoodLi(u) == Li(TRUE, "space-uid", u)
Buddies ==
  { <<>>,
    <<GoodLi("101"), Li(FALSE, "", None), GoodLi("102"), Li(TRUE, "", None),
      Li(TRUE, "about", None)>>,
    <<GoodLi("101"), GoodLi("102"), Li(FALSE, "", None), GoodLi("103")>> }

Input(name, value) == [name |-> name, value |-> value]
SignForm == [exists |-> TRUE, action |-> <<"/", "plugin.php?operation=qiandao", "/">>,
             inputs |-> <<Input("formhash", "abc"), Input(None, "x"),
                          Input("todaysay", "old"), Input("qdmode", None)>>]
PokeForm == [exists |-> TRUE, action |-> <<"home.php?pokesubmit">>,
             inputs |-> <<Input("formhash", "abc"), Input("note", None),
                          Input("", "skipped")>>]

\* what the site may answer, per page
InfoBodies == { Plain({}),
                Plain({LOGOUT_MARKER}),
                Page({LOGOUT_MARKER}, <<>>, NoForm, <<"<em>", "100", " ", "</em>", "\n">>) }
ScanBodies == { Plain({}) } \cup { Page({LOGOUT_MARKER}, b, NoForm, <<>>) : b \in Buddies }
SignBodies == { Plain({}), Plain({SIGN_TEXT}), Plain({LOGOUT_MARKER, SIGN_TEXT}),
                Plain({LOGOUT_MARKER}),
                Page({LOGOUT_MARKER}, <<>>, SignForm, <<>>) }
SignPostBodies == { Plain({}), Plain({SIGN_TEXT}) }
PokePageBodies == { Plain({}), Page({LOGOUT_MARKER}, <<>>, PokeForm, <<>>) }
PokePostBodies == { Plain({}), Plain({SUCCESS_TEXT}) }
AfraidBodies == { Plain({}), Plain({"user"}) }

\* a response: the exchange failed (connection error, timeout), or a body
NetError == [err |-> TRUE, body |-> Plain({})]
Responses(bodies) == {NetError} \cup {[err |-> FALSE, body |-> b] : b \in bodies}
\* no exchange yet, and no text handed back
NoResponse == [err |-> TRUE, body |-> Plain({"<no exchange>"})]
NoText == Plain({"<no text>"})

\* the substring test "marker in text"
Contains(text, marker) == marker \in text.markers

(* ----------------------- engine: pure functions ----------------------- *)
\* request without the marker check: whatever arrives is handed back
requestUnchecked(r) ==
  IF r.err THEN [exc |-> "ClientError", text |-> NoText]
  ELSE [exc |-> None, text |-> r.body]

\* request handing back only the markers of an authenticated page
requestStripped(r) ==
  IF r.err THEN [exc |-> "ClientError", text |-> NoText]
  ELSE IF ~Contains(r.body, LOGOUT_MARKER)
       THEN [exc |-> "AuthenticationError", text |-> NoText]
       ELSE [exc |-> None, text |-> Plain(r.body.markers)]

\* BaseDiscuzProvider.request: fetch, read the text, check the logout marker
request(r) ==
  IF r.err THEN [exc |-> "ClientError", text |-> NoText]
  ELSE IF ~Contains(r.body, LOGOUT_MARKER)
       THEN [exc |-> "AuthenticationError", text |-> NoText]
       ELSE [exc |-> None, text |-> r.body]

\* dict assignment params[k] = v
Put(params, k, v) == [x \in DOMAIN params \cup {k} |-> IF x = k THEN v ELSE params[x]]
EmptyDict == [x \in {} |-> None]

\* _extract_form_params leaving out the inputs that carry no value
RECURSIVE CollectValued(_, _)
CollectValued(inputs, params) ==
  IF inputs = <<>> THEN params
  ELSE LET name == Head(inputs).name
           value == Head(inputs).value
       IN CollectValued(Tail(inputs),
            IF name # None /\ name # "" /\ value # None
            THEN Put(params, name, value)
            ELSE params)
extractValuedOnly(form) ==
  IF form.exists THEN CollectValued(form.inputs, EmptyDict) ELSE EmptyDict

\* the loop of _extract_form_params without the default for a missing value
RECURSIVE CollectInputsNoDefault(_, _)
CollectInputsNoDefault(inputs, params) ==
  IF inputs = <<>> THEN params
  ELSE LET name == Head(inputs).name
           value == Head(inputs).value
       IN CollectInputsNoDefault(Tail(inputs),
            IF name # None /\ name # ""
            THEN Put(params, name, value)
            ELSE params)

\* BaseDiscuzProvider._extract_form_params
RECURSIVE CollectInputs(_, _)
CollectInputs(inputs, params) ==
  IF inputs = <<>> THEN params
  ELSE LET name == Head(inputs).name
           value == Head(inputs).value
       IN CollectInputs(Tail(inputs),
            IF name # None /\ name # ""
            THEN Put(params, name, IF value = None THEN "" ELSE value)
            ELSE params)
_extract_form_params(form) ==
  IF form.exists THEN CollectInputs(form.inputs, EmptyDict) ELSE EmptyDict

\* str.strip("/") on the form's action attribute
RECURSIVE LStrip(_)
LStrip(a) == IF a # <<>> /\ Head(a) = "/" THEN LStrip(Tail(a)) ELSE a
RECURSIVE RStrip(_)
RStrip(a) == IF a # <<>> /\ a[Len(a)] = "/" THEN RStrip(SubSeq(a, 1, Len(a) - 1)) ELSE a
Strip(a) == RStrip(LStrip(a))

\* the URLs the engine builds
Url(base, page, arg, inajax) == [base |-> base, page |-> page, arg |-> arg, inajax |-> inajax]
InfoUrl(base) == Url(base, "credit", <<>>, FALSE)
SignUrl(base) == Url(base, "sign", <<>>, FALSE)
UserUrl(base) == Url(base, "search", <<>>, FALSE)
SpaceUrl(base, uid) == Url(base, "space", <<uid>>, FALSE)
PokeUrl(base, uid) == Url(base, "poke", <<uid>>, FALSE)
ActionUrl(base, form) == Url(base, "action", Strip(form.action), TRUE)
AfraidUrl == Url(<<"https://freedns.afraid.org">>, "zc", <<>>, FALSE)

\* BaseDiscuzProvider.get_users: the uid of every element that has a link
\* with a non-empty href matching UID_PATTERN, in document order
RECURSIVE ScanUids(_)
ScanUids(elements) ==
  IF elements = <<>> THEN <<>>
  ELSE LET e == Head(elements)
       IN (IF e.avt /\ e.href # "" /\ e.uid # None THEN <<e.uid>> ELSE <<>>)
            \o ScanUids(Tail(elements))

\* BaseDiscuzProvider.user_info: the text of .creditl without the noise
\* tokens and without whitespace; "" when the region is absent
RECURSIVE Cleanup(_)
Cleanup(tokens) ==
  IF tokens = <<>> THEN <<>>
  ELSE (IF Head(tokens) \in {"<em>", "</em>", "&#13;", "\n", " "} THEN <<>>
        ELSE <<Head(tokens)>>) \o Cleanup(Tail(tokens))

\* the confirmation entry poke() renders for a uid
Confirmation(uid) == <<"poke sent to", uid>>

(* ------------------------------- state -------------------------------- *)
VARIABLES
  store,          \* the documents of the "providers" collection
  provider,       \* the provider the process was started for
  nameArg,        \* the -u/--username filter, NoName when not given
  pc,             \* where run() stands
  client,         \* db._client
  collection,     \* db.collection
  session,        \* the provider's _session
  sessions,       \* how many ClientSession objects the provider has constructed
  providers,      \* run(): the list get_provider returned
  idx,            \* run(): position of the batch loop in providers
  base_url,       \* the provider's base_url attribute
  headers,        \* handler(): the headers dict of the current invocation
  selected_uids,  \* views()/poke(): the sampled uids
  pending,        \* sign(): the POST the main line is waiting for
  tasks,          \* the child tasks asyncio.gather created and not yet collected
  op,             \* the engine operation the handler called last, and how it ended
  calls,          \* the calls session.request received from that operation (a bag)
  resp,           \* the response request() received on the main line of that operation
  text,           \* what that request() call returned to its caller
  reply,          \* the response a direct fetch() of that operation received
  invoked,        \* per record name: how often its handler was invoked
  report,         \* per record name: what run() logged for it
  db_url,         \* the MONGO_URL of the environment, "" when not set
  unwinding,      \* the exception that is leaving run(), None when there is none
  exit_status,    \* the status the process exited with, NoExit while it runs
  now,            \* the clock datetime.utcnow() reads
  soup,           \* the form of the document handed to _extract_form_params
  extracted,      \* the map _extract_form_params returned for it
  runs,           \* per run() invocation of a process with several: where it stands
  serial          \* whether that process awaits one run() before it starts the next

\* what run() only reads or never touches: the store, the arguments of the
\* process, its environment, and the state of the store and form operations
config == <<store, provider, nameArg, db_url, now, soup, extracted, runs, serial>>
handle == <<client, collection>>
http == <<session, sessions>>
seen == <<resp, text, reply>>
process == <<unwinding, exit_status>>
vars == <<store, provider, nameArg, pc, client, collection, session, sessions, providers,
          idx, base_url, headers, selected_uids, pending, tasks, op, calls,
          resp, text, reply, invoked, report, db_url, unwinding, exit_status,
          now, soup, extracted, runs, serial>>

\* the session property with the test for an existing session missing: every
\* use constructs a ClientSession
SessionGetAlwaysNew ==
  /\ session' = "open"
  /\ sessions' = sessions + 1

\* the session property, base.py:58-63: the ClientSession is constructed when
\* there is none, and the one there is is handed out otherwise
SessionGet ==
  /\ session' = "open"
  /\ sessions' = IF session = None THEN sessions + 1 ELSE sessions

\* close_session, base.py:65-69: the session is closed and forgotten; without
\* a session nothing happens
close_session ==
  /\ session' = None
  /\ UNCHANGED sessions

\* BaseProvider.fetch: the call handed to session.request.  A default
\* User-Agent is added when absent; a non-empty body makes the call a POST.
fetch(task, url, data, hdrs) ==
  [task |-> task,
   method |-> IF data # EmptyDict THEN "POST" ELSE "GET",
   url |-> url,
   data |-> data,
   headers |-> IF "User-Agent" \in DOMAIN hdrs THEN hdrs
               ELSE Put(hdrs, "User-Agent", "Mozilla/5.0"),
   timeout |-> DEFAULT_TIMEOUT,
   ssl |-> FALSE]
NoCall == [task |-> 0, method |-> None, url |-> Url(<<>>, None, <<>>, FALSE),
           data |-> EmptyDict, headers |-> EmptyDict, timeout |-> DEFAULT_TIMEOUT,
           ssl |-> FALSE]

\* values an engine operation hands back
Str(s) == [t |-> "str", s |-> s]
Text(b) == [t |-> "text", body |-> b]
List(l) == [t |-> "list", l |-> l]
Viewed(n) == [t |-> "viewed", n |-> n]
Exc(e) == [t |-> "exc", exc |-> e]
Running(name) == [name |-> name, status |-> "running", val |-> [t |-> "none"]]
Returned(name, v) == [name |-> name, status |-> "returned", val |-> v]
Raised(name, e) == [name |-> name, status |-> "raised", val |-> Exc(e)]

\* the record the batch loop is at
CurName == providers[idx][1]
CurData == providers[idx][2]

\* the names cli.py may be started with: the two provider modules, and a
\* name without a module
ProviderArgs == {"jkforum", "afraid", "nosuch"}
\* the MONGO_URL values: not set, or a connection string
DbUrls == {"", "mongodb://host"}
\* the operation slot before any operation
Idle == [name |-> None, status |-> "idle", val |-> [t |-> "none"]]
\* the run() invocations of a process, none of them started
Runners == 1..MaxRuns
NoRuns == [r \in Runners |-> [at |-> "idle", op |-> Idle]]

Init ==
  /\ store \in Stores
  /\ provider \in ProviderArgs
  /\ nameArg \in {NoName} \cup Names
  /\ db_url \in DbUrls
  /\ unwinding = None
  /\ exit_status = NoExit
  /\ now = 0
  /\ soup = NoForm
  /\ extracted = EmptyDict
  /\ runs = NoRuns
  /\ serial = TRUE
  /\ pc = "import"
  /\ client = None
  /\ collection = None
  /\ session = None
  /\ sessions = 0
  /\ providers = <<>>
  /\ idx = 0
  /\ base_url = <<>>
  /\ headers = EmptyDict
  /\ selected_uids = <<>>
  /\ pending = NoCall
  /\ tasks = {}
  /\ op = Idle
  /\ calls = EmptyBag
  /\ resp = NoResponse
  /\ text = NoText
  /\ reply = NoResponse
  /\ invoked = [n \in Names |-> 0]
  /\ report = [n \in Names |-> [status |-> "none", exc |-> None]]

(* ------------------------------ the process --------------------------- *)
\* cli.py:6 imports vector.core.base, which imports db.py, whose last line
\* constructs the MongoDB singleton: without MONGO_URL the constructor
\* raises ValueError, nothing catches it and the interpreter exits with 1
Import ==
  /\ pc = "import"
  /\ IF db_url = ""
     THEN pc' = "exit" /\ exit_status' = 1
     ELSE pc' = "create" /\ UNCHANGED exit_status
  /\ UNCHANGED <<config, handle, http, providers, idx, base_url, headers,
                 selected_uids, pending, tasks, op, calls, seen, invoked, report,
                 unwinding>>

\* cli.py:33-36 with create_provider_instance: a name without a module
\* raises ImportError out of asyncio.run, and main() exits with 1
RunProvider ==
  /\ pc = "create"
  /\ IF provider \in {"jkforum", "afraid"}
     THEN pc' = "connect" /\ UNCHANGED exit_status
     ELSE pc' = "exit" /\ exit_status' = 1
  /\ UNCHANGED <<config, handle, http, providers, idx, base_url, headers,
                 selected_uids, pending, tasks, op, calls, seen, invoked, report,
                 unwinding>>

\* Ctrl-C while run() is awaited: the run() task is cancelled; CancelledError
\* is no Exception, so neither except of run() catches it and only the
\* finally runs.  The handler's frame is unwound, the children of a gather
\* are cancelled with it, and what the interrupted operation had observed is
\* dropped.
Interrupt ==
  /\ pc \notin {"import", "create", "close", "done", "exit"}
  /\ unwinding' = "CancelledError"
  /\ pc' = "close"
  /\ tasks' = {}
  /\ headers' = EmptyDict
  /\ selected_uids' = <<>>
  /\ pending' = NoCall
  /\ op' = Idle
  /\ calls' = EmptyBag
  /\ resp' = NoResponse
  /\ text' = NoText
  /\ reply' = NoResponse
  /\ UNCHANGED <<config, handle, http, providers, idx, base_url, invoked,
                 report, exit_status>>

\* cli.py:46-54: asyncio.run returns and main() falls off its end (status 0),
\* or asyncio.run raises KeyboardInterrupt for the cancelled run (status 130);
\* asyncio.run cancels the tasks that are left
Exit ==
  /\ pc = "done"
  /\ pc' = "exit"
  /\ exit_status' = IF unwinding = None THEN 0 ELSE 130
  /\ tasks' = {}
  /\ UNCHANGED <<config, handle, http, providers, idx, base_url, headers,
                 selected_uids, pending, op, calls, seen, invoked, report,
                 unwinding>>

(* ----------------------------- run(): setup --------------------------- *)
\* MongoDB.connect, awaited at base.py:105.  The client constructor or
\* create_index may raise; run()'s outer except then leads to the finally.
Connect ==
  /\ pc = "connect"
  /\ IF collection # None
     THEN /\ pc' = "query"
          /\ op' = Returned("connect", Str("connected"))
          /\ UNCHANGED handle
     ELSE \E out \in {"ok", "client_fails", "index_fails"} :
            /\ out = "client_fails" => client = None
            /\ client' = IF out = "client_fails" THEN client ELSE "client"
            /\ collection' = IF out = "client_fails" THEN None ELSE "providers"
            /\ pc' = IF out = "ok" THEN "query" ELSE "close"
            /\ op' = IF out = "ok" THEN Returned("connect", Str("connected"))
                     ELSE Raised("connect", "PyMongoError")
  /\ UNCHANGED <<config, process, http, providers, idx, base_url, headers,
                 selected_uids, pending, tasks, calls, seen, invoked, report>>

\* GetProvider with a query that stamps the documents it returns
GetProviderStamps ==
  /\ pc = "query"
  /\ \E ok \in BOOLEAN :
       IF ok
       THEN LET found == get_provider(store, provider, nameArg)
                read == {d \in store : \E k \in 1..Len(found) :
                           d.provider_type = provider /\ d.name = found[k][1]}
            IN /\ providers' = found
               /\ idx' = IF found = <<>> THEN idx ELSE 1
               /\ pc' = IF found = <<>> THEN "close" ELSE "loop"
               /\ op' = Returned("get_provider", List(found))
               /\ store' = (store \ read) \cup
                             {[d EXCEPT !.updated_at = now + 1] : d \in read}
       ELSE /\ pc' = "close"
            /\ op' = Raised("get_provider", "PyMongoError")
            /\ UNCHANGED <<providers, idx, store>>
  /\ UNCHANGED <<provider, nameArg, db_url, now, soup, extracted, runs, serial, process, handle,
                 http, base_url, headers, selected_uids, pending, tasks, calls, seen,
                 invoked, report>>

\* base.py:107-113: the query for the enabled records; an empty list ends
\* the run, a failing query is caught by the outer except
GetProvider ==
  /\ pc = "query"
  /\ \E ok \in BOOLEAN :
       IF ok
       THEN LET found == get_provider(store, provider, nameArg)
            IN /\ providers' = found
               /\ idx' = IF found = <<>> THEN idx ELSE 1
               /\ pc' = IF found = <<>> THEN "close" ELSE "loop"
               /\ op' = Returned("get_provider", List(found))
       ELSE /\ pc' = "close"
            /\ op' = Raised("get_provider", "PyMongoError")
            /\ UNCHANGED <<providers, idx>>
  /\ UNCHANGED <<config, process, handle, http, base_url, headers, selected_uids,
                 pending, tasks, calls, seen, invoked, report>>

\* MongoDB.close forgetting the client only
db_close_keeps_collection ==
  /\ client' = None
  /\ UNCHANGED collection

\* MongoDB.close, db.py:38-43: with a client, the client is closed and the
\* client and the collection are forgotten; without one nothing happens
db_close ==
  /\ client' = None
  /\ collection' = IF client # None THEN None ELSE collection

\* Close with BaseProvider.close not calling close_session
CloseKeepsSession ==
  /\ pc = "close"
  /\ client' = None
  /\ collection' = IF client # None THEN None ELSE collection
  /\ pc' = "done"
  /\ UNCHANGED <<config, process, http, providers, idx, base_url, headers, selected_uids,
                 pending, tasks, op, calls, seen, invoked, report>>

\* base.py:135-136 with BaseProvider.close, MongoDB.close and close_session
Close ==
  /\ pc = "close"
  /\ db_close
  /\ close_session
  /\ pc' = "done"
  /\ UNCHANGED <<config, process, providers, idx, base_url, headers, selected_uids,
                 pending, tasks, op, calls, seen, invoked, report>>

(* --------------------------- run(): batch loop ------------------------ *)
\* HandlerEnds with the inner try of base.py:117 missing: an exception of
\* the handler leaves the batch loop
HandlerEndsAbort(status, exc) ==
  /\ report' = [report EXCEPT ![CurName] = [status |-> status, exc |-> exc]]
  /\ idx' = IF status = "exception" THEN idx ELSE idx + 1
  /\ pc' = IF status = "exception" \/ idx + 1 > Len(providers) THEN "close" ELSE "loop"
  /\ headers' = EmptyDict
  /\ selected_uids' = <<>>
  /\ pending' = NoCall

\* what run() does when the handler of the current record ends: log the
\* result (base.py:123-132) and go on with the next record
HandlerEnds(status, exc) ==
  /\ report' = [report EXCEPT ![CurName] = [status |-> status, exc |-> exc]]
  /\ idx' = idx + 1
  /\ pc' = IF idx + 1 > Len(providers) THEN "close" ELSE "loop"
  /\ headers' = EmptyDict
  /\ selected_uids' = <<>>
  /\ pending' = NoCall

\* base.py:115-122 and the first lines of the handler
StartHandler ==
  /\ pc = "loop"
  /\ invoked' = [invoked EXCEPT ![CurName] = @ + 1]
  /\ IF provider = "jkforum"
     THEN /\ base_url' = CurData.base_url
          /\ headers' = [x \in {"Cookie"} |-> CurData.cookie]
          /\ pc' = "user_info"
     ELSE /\ pc' = "afraid"
          /\ UNCHANGED <<base_url, headers>>
  /\ UNCHANGED <<config, process, handle, http, providers, idx, selected_uids,
                 pending, tasks, op, calls, seen, report>>

\* Afraid.handler
AfraidHandler ==
  /\ pc = "afraid"
  /\ LET username == CurData.username
         password == CurData.password
         params == [x \in {"username", "password", "submit", "action"} |->
                      CASE x = "username" -> username
                        [] x = "password" -> password
                        [] x = "submit" -> "Login"
                        [] x = "action" -> "auth"]
         call == fetch(0, AfraidUrl, params, EmptyDict)
     IN IF username \in {None, ""} \/ password \in {None, ""}
        THEN /\ HandlerEnds("failure", None)
             /\ op' = Returned("afraid", Str("Missing credentials"))
             /\ calls' = EmptyBag
             /\ UNCHANGED <<http, reply>>
        ELSE \E r \in Responses(AfraidBodies) :
               /\ SessionGet
               /\ calls' = SetToBag({call})
               /\ reply' = r
               /\ IF r.err
                  THEN /\ HandlerEnds("exception", "ClientError")
                       /\ op' = Raised("afraid", "ClientError")
                  ELSE IF Contains(r.body, username)
                  THEN /\ HandlerEnds("success", None)
                       /\ op' = Returned("afraid", Str("Login successful"))
                  ELSE /\ HandlerEnds("failure", None)
                       /\ op' = Returned("afraid", Str("Login failed"))
  /\ UNCHANGED <<config, process, handle, providers, base_url, tasks, resp, text, invoked>>

(* --------------------- Jkforum.handler: main line --------------------- *)
\* Continue with a handler that leaves out views()
ContinueSkipsViews(next) ==
  /\ pc' = IF next = "views" THEN "sign" ELSE next
  /\ UNCHANGED <<report, idx>>

\* the handler goes on with the next engine operation
Continue(next) ==
  /\ pc' = next
  /\ UNCHANGED <<report, idx>>

\* the main line calls request(): the session is created if there is none,
\* the response r arrives and request() hands back its text or raises
Requested(r) ==
  /\ SessionGet
  /\ resp' = r
  /\ text' = request(r).text
  /\ reply' = NoResponse

\* a child task: the record and gather it belongs to, its position in the
\* sampled list, how far it is, and the response its last fetch() received
Task(owner, kind, i, st) ==
  [owner |-> owner, kind |-> kind, i |-> i, st |-> st, reply |-> NoResponse]
\* the child tasks of the gather the main line is waiting in
MyTasks(kind) == {t \in tasks : t.owner = CurName /\ t.kind = kind}
\* a child ended by raising
IsException(st) == st \in {"AuthenticationError", "ClientError"}
\* the state of t becomes st
Advance(t, st) == tasks' = (tasks \ {t}) \cup {[t EXCEPT !.st = st]}
\* t receives the response r of its fetch() and its state becomes st
Receive(t, r, st) == tasks' = (tasks \ {t}) \cup {[t EXCEPT !.st = st, !.reply = r]}

\* the guard with < for <=
TooFewStrict(uid_list) == Len(uid_list) < MIN_USER_COUNT

\* the population guard of views() and poke(), discuz.py:69 and 125
TooFew(uid_list) == Len(uid_list) <= MIN_USER_COUNT

\* sign() without its short-circuit
AlreadySignedNever(result) == FALSE

\* the short-circuit test of sign(), discuz.py:52
AlreadySigned(result) == Contains(result, SIGN_TEXT)

\* random.choice over uid_list, n times: every list of n sampled uids
Samples(uid_list, n) ==
  { [i \in 1..n |-> uid_list[choice[i]]] : choice \in [1..n -> 1..Len(uid_list)] }

\* jkforum.py:14 with BaseDiscuzProvider.user_info
UserInfo ==
  /\ pc = "user_info"
  /\ \E r \in Responses(InfoBodies) :
       LET call == fetch(0, InfoUrl(base_url), EmptyDict, headers)
           result == request(r)
       IN /\ Requested(r)
          /\ calls' = SetToBag({call})
          /\ IF result.exc # None
             THEN /\ HandlerEnds("exception", result.exc)
                  /\ op' = Raised("user_info", result.exc)
             ELSE /\ Continue("views")
                  /\ op' = Returned("user_info", List(Cleanup(result.text.creditl)))
                  /\ headers' = call.headers
                  /\ UNCHANGED <<selected_uids, pending>>
  /\ UNCHANGED <<config, process, handle, providers, base_url, tasks, invoked>>

\* jkforum.py:17 with BaseDiscuzProvider.views up to the await of gather:
\* the scan (get_users), the population guard, the sampling and the dispatch
ViewsScan ==
  /\ pc = "views"
  /\ \E r \in Responses(ScanBodies) :
       LET scan == fetch(0, UserUrl(base_url), EmptyDict, headers)
           html == request(r)
           uid_list == ScanUids(html.text.buddy)
       IN /\ Requested(r)
          /\ IF html.exc # None
             THEN /\ HandlerEnds("exception", html.exc)
                  /\ op' = Raised("views", html.exc)
                  /\ calls' = SetToBag({scan})
                  /\ UNCHANGED tasks
             ELSE IF TooFew(uid_list)
             THEN /\ Continue("sign")
                  /\ op' = Returned("views", Str("No users found"))
                  /\ calls' = SetToBag({scan})
                  /\ UNCHANGED <<tasks, headers, selected_uids, pending>>
             ELSE \E sel \in Samples(uid_list, VIEW_COUNT) :
                    LET gets == {fetch(i, SpaceUrl(base_url, sel[i]), EmptyDict, headers) :
                                   i \in 1..VIEW_COUNT}
                    IN /\ Continue("views_gather")
                       /\ op' = Running("views")
                       /\ selected_uids' = sel
                       /\ calls' = SetToBag({scan}) (+) SetToBag(gets)
                       /\ tasks' = tasks \cup
                            {Task(CurName, "view", i, "flight") : i \in 1..VIEW_COUNT}
                       /\ UNCHANGED <<headers, pending>>
  /\ UNCHANGED <<config, process, handle, providers, base_url, invoked>>

\* one profile-view fetch of the gather in views() completes: with a
\* response, or with an exception
ViewDone ==
  /\ pc = "views_gather"
  /\ \E t \in MyTasks("view") : \E ok \in BOOLEAN :
       /\ t.st = "flight"
       /\ Advance(t, IF ok THEN "done" ELSE "ClientError")
  /\ UNCHANGED <<config, process, pc, handle, http, providers, idx, base_url, headers,
                 selected_uids, pending, op, calls, seen, invoked, report>>

\* discuz.py:81-83: gather has every result; views() returns its summary
ViewsReturn ==
  /\ pc = "views_gather"
  /\ \A t \in MyTasks("view") : t.st = "done"
  /\ tasks' = tasks \ MyTasks("view")
  /\ op' = Returned("views", Viewed(Len(selected_uids)))
  /\ selected_uids' = <<>>
  /\ Continue("sign")
  /\ UNCHANGED <<config, process, handle, http, providers, base_url, headers, pending,
                 calls, seen, invoked>>

\* discuz.py:81: gather without return_exceptions hands the first exception
\* of a child to views() as soon as that child has failed; the children that
\* are still running are left running. Nothing refers to their positions in
\* the sampled list any more, so they are kept numbered from 1.
ViewsRaise ==
  /\ pc = "views_gather"
  /\ \E t \in MyTasks("view") : IsException(t.st)
  /\ LET running == {t \in MyTasks("view") : t.st = "flight"}
     IN tasks' = (tasks \ MyTasks("view")) \cup
                   {Task(CurName, "view", k, "flight") : k \in 1..Cardinality(running)}
  /\ op' = Raised("views", "ClientError")
  /\ HandlerEnds("exception", "ClientError")
  /\ UNCHANGED <<config, process, handle, http, providers, base_url, calls, seen, invoked>>

\* a profile-view fetch whose views() call has ended completes; the ones
\* left by one call are interchangeable, the highest-numbered is taken
StrayDone ==
  /\ \E t \in tasks :
       /\ t.kind = "view"
       /\ t.st = "flight"
       /\ pc = "views_gather" => t.owner # CurName
       /\ \A u \in tasks : (u.owner = t.owner /\ u.kind = "view") => u.i <= t.i
       /\ tasks' = tasks \ {t}
  /\ UNCHANGED <<config, process, pc, handle, http, providers, idx, base_url, headers,
                 selected_uids, pending, op, calls, seen, invoked, report>>

\* jkforum.py:20 with BaseDiscuzProvider.sign up to the POST's await
SignFetch ==
  /\ pc = "sign"
  /\ \E r \in Responses(SignBodies) :
       LET get == fetch(0, SignUrl(base_url), EmptyDict, headers)
           result == request(r)
           form == result.text.form
           params == Put(_extract_form_params(form), "todaysay", "hello")
           post == fetch(0, ActionUrl(base_url, form), params, headers)
       IN /\ Requested(r)
          /\ IF result.exc # None
             THEN /\ HandlerEnds("exception", result.exc)
                  /\ op' = Raised("sign", result.exc)
                  /\ calls' = SetToBag({get})
             ELSE IF AlreadySigned(result.text)
             THEN /\ Continue("poke")
                  /\ op' = Returned("sign", Str(SIGN_TEXT))
                  /\ calls' = SetToBag({get})
                  /\ UNCHANGED <<headers, selected_uids, pending>>
             ELSE /\ Continue("sign_post")
                  /\ op' = Running("sign")
                  /\ calls' = SetToBag({get}) (+) SetToBag({post})
                  /\ pending' = post
                  /\ UNCHANGED <<headers, selected_uids>>
  /\ UNCHANGED <<config, process, handle, providers, base_url, tasks, invoked>>

\* discuz.py:62-63: the POST's response and its text
SignPost ==
  /\ pc = "sign_post"
  /\ \E r \in Responses(SignPostBodies) :
       /\ reply' = r
       /\ IF r.err
          THEN /\ HandlerEnds("exception", "ClientError")
               /\ op' = Raised("sign", "ClientError")
          ELSE /\ Continue("poke")
               /\ op' = Returned("sign", Text(r.body))
               /\ pending' = NoCall
               /\ UNCHANGED <<headers, selected_uids>>
  /\ UNCHANGED <<config, process, handle, http, providers, base_url, tasks, calls,
                 resp, text, invoked>>

(* ------------------------------- poke() ------------------------------- *)
\* jkforum.py:23 with BaseDiscuzProvider.poke up to the await of gather.
\* Each child (_send_poke) starts with the GET of its uid's poke page.
PokeScan ==
  /\ pc = "poke"
  /\ \E r \in Responses(ScanBodies) :
       LET poke_num == POKE_DEFAULT_NUM
           scan == fetch(0, UserUrl(base_url), EmptyDict, headers)
           html == request(r)
           uid_list == ScanUids(html.text.buddy)
       IN /\ Requested(r)
          /\ IF html.exc # None
             THEN /\ HandlerEnds("exception", html.exc)
                  /\ op' = Raised("poke", html.exc)
                  /\ calls' = SetToBag({scan})
                  /\ UNCHANGED tasks
             ELSE IF TooFew(uid_list)
             THEN /\ HandlerEnds("success", None)
                  /\ op' = Returned("poke", List(<<>>))
                  /\ calls' = SetToBag({scan})
                  /\ UNCHANGED tasks
             ELSE \E sel \in Samples(uid_list, poke_num) :
                    LET gets == {fetch(i, PokeUrl(base_url, sel[i]), EmptyDict, headers) :
                                   i \in 1..poke_num}
                    IN /\ Continue("poke_gather")
                       /\ op' = Running("poke")
                       /\ selected_uids' = sel
                       /\ calls' = SetToBag({scan}) (+) SetToBag(gets)
                       /\ tasks' = tasks \cup
                            {Task(CurName, "poke", i, "page") : i \in 1..poke_num}
                       /\ UNCHANGED <<headers, pending>>
  /\ UNCHANGED <<config, process, handle, providers, base_url, invoked>>

\* _send_poke, discuz.py:150-159: the poke page of the child's uid arrives;
\* request() checks it, the form is read and the POST is sent
PokePage ==
  /\ pc = "poke_gather"
  /\ \E t \in MyTasks("poke") : \E r \in Responses(PokePageBodies) :
       LET page == request(r)
           iconid == POKE_DEFAULT_ICONID
           params == Put(Put(_extract_form_params(page.text.form), "iconid", iconid),
                         "note", "hello")
           poke_url == PokeUrl(base_url, selected_uids[t.i])
           action == [poke_url EXCEPT !.inajax = TRUE]
           post == fetch(t.i, action, params, headers)
       IN /\ t.st = "page"
          /\ IF page.exc # None
             THEN /\ Receive(t, r, page.exc)
                  /\ UNCHANGED <<calls, http>>
             ELSE /\ Receive(t, r, "post")
                  /\ calls' = calls (+) SetToBag({post})
                  /\ SessionGet
  /\ UNCHANGED <<config, process, pc, handle, providers, idx, base_url, headers,
                 selected_uids, pending, op, seen, invoked, report>>

\* _send_poke, discuz.py:159-162: the POST completes and its text is read
\* and searched for the success marker; the POST or the read may raise
PokePost ==
  /\ pc = "poke_gather"
  /\ \E t \in MyTasks("poke") : \E r \in Responses(PokePostBodies) :
       /\ t.st = "post"
       /\ Receive(t, r, IF r.err THEN "ClientError"
                        ELSE IF Contains(r.body, SUCCESS_TEXT) THEN "true"
                        ELSE "false")
  /\ UNCHANGED <<config, process, pc, handle, http, providers, idx, base_url, headers,
                 selected_uids, pending, op, calls, seen, invoked, report>>

\* Confirmed without the test of the child's result: an entry for every
\* child that did not raise
RECURSIVE ConfirmedAll(_, _, _)
ConfirmedAll(poke_results, uids, i) ==
  IF i > Len(poke_results) THEN <<>>
  ELSE (IF ~IsException(poke_results[i])
        THEN <<Confirmation(uids[i])>> ELSE <<>>)
         \o ConfirmedAll(poke_results, uids, i + 1)

\* discuz.py:139-142: the entries of the children that returned True, in
\* the order of the sampled list
RECURSIVE Confirmed(_, _, _)
Confirmed(poke_results, uids, i) ==
  IF i > Len(poke_results) THEN <<>>
  ELSE (IF ~IsException(poke_results[i]) /\ poke_results[i] = "true"
        THEN <<Confirmation(uids[i])>> ELSE <<>>)
         \o Confirmed(poke_results, uids, i + 1)

\* gather handing back the results of its children in reverse
PokeResultsReversed ==
  [i \in 1..Len(selected_uids) |->
     (CHOOSE t \in MyTasks("poke") : t.i = Len(selected_uids) + 1 - i).st]

\* what gather hands back for position i: the result of its child
PokeResults ==
  [i \in 1..Len(selected_uids) |-> (CHOOSE t \in MyTasks("poke") : t.i = i).st]

\* PokeReturn with gather's default return_exceptions=False: the first
\* exception of a child ends poke() and the handler, the other children are
\* left running
PokeReturnPropagates ==
  /\ pc = "poke_gather"
  /\ \/ /\ \E t \in MyTasks("poke") : IsException(t.st)
        /\ tasks' = tasks \ {t \in MyTasks("poke") : t.st \in {"true", "false"} \/ IsException(t.st)}
        /\ op' = Raised("poke", "ClientError")
        /\ HandlerEnds("exception", "ClientError")
     \/ /\ \A t \in MyTasks("poke") : t.st \in {"true", "false"}
        /\ tasks' = tasks \ MyTasks("poke")
        /\ op' = Returned("poke", List(Confirmed(PokeResults, selected_uids, 1)))
        /\ HandlerEnds("success", None)
  /\ UNCHANGED <<config, process, handle, http, providers, base_url, calls, seen, invoked>>

\* discuz.py:137-144 and jkforum.py:24-26: gather(return_exceptions=True)
\* returns once every child has ended; poke() returns its entries and the
\* handler returns its success result
PokeReturn ==
  /\ pc = "poke_gather"
  /\ \A t \in MyTasks("poke") : t.st \in {"true", "false"} \/ IsException(t.st)
  /\ tasks' = tasks \ MyTasks("poke")
  /\ op' = Returned("poke", List(Confirmed(PokeResults, selected_uids, 1)))
  /\ HandlerEnds("success", None)
  /\ UNCHANGED <<config, process, handle, http, providers, base_url, calls, seen, invoked>>

(* --------------------------- specification ---------------------------- *)
Next ==
  \/ Import
  \/ RunProvider
  \/ Connect
  \/ GetProvider
  \/ StartHandler
  \/ AfraidHandler
  \/ UserInfo
  \/ ViewsScan
  \/ ViewDone
  \/ ViewsReturn
  \/ ViewsRaise
  \/ StrayDone
  \/ SignFetch
  \/ SignPost
  \/ PokeScan
  \/ PokePage
  \/ PokePost
  \/ PokeReturn
  \/ Close
  \/ Exit

\* the process left to itself
Spec == Init /\ [][Next]_vars

\* the process with a user who may interrupt it
NextCli ==
  \/ Next
  \/ Interrupt

SpecCli == Init /\ [][NextCli]_vars

(* ------------------- the store operations on their own ---------------- *)
\* the arguments of add_provider and save_provider
StoreTypes == {"jkforum", "afraid"}
DataArgs == {JkData(1), AfraidData(2)}
Statuses == {STATUS_DISABLED, STATUS_ENABLED}
StoreArgs(pt, n, d, s) == [provider_type |-> pt, name |-> n, data |-> d, status |-> s]
\* a store operation as the operation slot shows it: its arguments, the
\* instant it read, the exception it raised (None: it returned) and the
\* list it returned (get_provider)
StoreOp(name, args, at, exc, result) ==
  [name |-> name, status |-> IF exc = None THEN "returned" ELSE "raised",
   val |-> [t |-> "store", args |-> args, at |-> at, exc |-> exc, result |-> result]]
\* the documents of coll with the key (pt, n)
Existing(coll, pt, n) == {d \in coll : d.provider_type = pt /\ d.name = n}

InitStore ==
  /\ store = {}
  /\ now = 0
  /\ pc = "store"
  /\ client = None
  /\ collection = None
  /\ op = Idle
  /\ provider = "jkforum"
  /\ nameArg = NoName
  /\ db_url = "mongodb://host"
  /\ unwinding = None
  /\ exit_status = NoExit
  /\ soup = NoForm
  /\ extracted = EmptyDict
  /\ runs = NoRuns
  /\ serial = TRUE
  /\ session = None
  /\ sessions = 0
  /\ providers = <<>>
  /\ idx = 0
  /\ base_url = <<>>
  /\ headers = EmptyDict
  /\ selected_uids = <<>>
  /\ pending = NoCall
  /\ tasks = {}
  /\ calls = EmptyBag
  /\ resp = NoResponse
  /\ text = NoText
  /\ reply = NoResponse
  /\ invoked = [n \in Names |-> 0]
  /\ report = [n \in Names |-> [status |-> "none", exc |-> None]]

\* what no store operation touches
apart == <<provider, nameArg, db_url, soup, extracted, runs, serial, process, http, providers,
           idx, base_url, headers, selected_uids, pending, tasks, calls, seen,
           invoked, report>>

\* MongoDB.connect on the handle of a fresh process: the client, the
\* collection and its unique index on (provider_type, name)
DbConnect ==
  /\ pc = "store"
  /\ collection = None
  /\ client' = "client"
  /\ collection' = "providers"
  /\ UNCHANGED <<store, now, pc, op, apart>>

\* add_provider on a collection without the unique index
AddProviderNoIndex ==
  /\ pc = "store"
  /\ \E pt \in StoreTypes, n \in Names, d \in DataArgs, s \in Statuses :
       LET args == StoreArgs(pt, n, d, s)
       IN IF collection = None
          THEN /\ op' = StoreOp("add_provider", args, now, "AttributeError", <<>>)
               /\ UNCHANGED <<store, now>>
          ELSE /\ now < MaxClock
               /\ now' = now + 1
               /\ store' = store \cup {Doc(pt, n, d, s, now', now')}
               /\ op' = StoreOp("add_provider", args, now', None, <<>>)
  /\ UNCHANGED <<pc, handle, apart>>

\* MongoDB.add_provider: insert_one of a document stamped with the current
\* instant; the unique index refuses a second document of a key.  Before
\* connect() the collection is None and the attribute access raises.
AddProvider ==
  /\ pc = "store"
  /\ \E pt \in StoreTypes, n \in Names, d \in DataArgs, s \in Statuses :
       LET args == StoreArgs(pt, n, d, s)
       IN IF collection = None
          THEN /\ op' = StoreOp("add_provider", args, now, "AttributeError", <<>>)
               /\ UNCHANGED <<store, now>>
          ELSE /\ now < MaxClock
               /\ now' = now + 1
               /\ IF Existing(store, pt, n) # {}
                  THEN /\ op' = StoreOp("add_provider", args, now', "DuplicateKeyError", <<>>)
                       /\ UNCHANGED store
                  ELSE /\ store' = store \cup {Doc(pt, n, d, s, now', now')}
                       /\ op' = StoreOp("add_provider", args, now', None, <<>>)
  /\ UNCHANGED <<pc, handle, apart>>

\* save_provider replacing the whole document
SaveProviderReplace ==
  /\ pc = "store"
  /\ \E pt \in StoreTypes, n \in Names, d \in DataArgs, s \in Statuses :
       LET args == StoreArgs(pt, n, d, s)
       IN IF collection = None
          THEN /\ op' = StoreOp("save_provider", args, now, "AttributeError", <<>>)
               /\ UNCHANGED <<store, now>>
          ELSE /\ now < MaxClock
               /\ now' = now + 1
               /\ store' = (store \ Existing(store, pt, n)) \cup {Doc(pt, n, d, s, now', now')}
               /\ op' = StoreOp("save_provider", args, now', None, <<>>)
  /\ UNCHANGED <<pc, handle, apart>>

\* MongoDB.save_provider: update_one with upsert.  A document of the key
\* gets data, status and updated_at set; without one, a document is
\* inserted with these fields, the key and created_at.
SaveProvider ==
  /\ pc = "store"
  /\ \E pt \in StoreTypes, n \in Names, d \in DataArgs, s \in Statuses :
       LET args == StoreArgs(pt, n, d, s)
           found == Existing(store, pt, n)
       IN IF collection = None
          THEN /\ op' = StoreOp("save_provider", args, now, "AttributeError", <<>>)
               /\ UNCHANGED <<store, now>>
          ELSE /\ now < MaxClock
               /\ now' = now + 1
               /\ IF found # {}
                  THEN LET e == CHOOSE x \in found : TRUE
                       IN store' = (store \ {e}) \cup
                            {[e EXCEPT !.data = d, !.status = s, !.updated_at = now']}
                  ELSE store' = store \cup {Doc(pt, n, d, s, now', now')}
               /\ op' = StoreOp("save_provider", args, now', None, <<>>)
  /\ UNCHANGED <<pc, handle, apart>>

\* MongoDB.get_provider, called last: it changes nothing, so the operations
\* after it would be those of the state before it
GetQuery ==
  /\ pc = "store"
  /\ \E pt \in StoreTypes, n \in {NoName} \cup Names :
       LET args == [provider_type |-> pt, name |-> n]
       IN IF collection = None
          THEN op' = StoreOp("get_provider", args, now, "AttributeError", <<>>)
          ELSE op' = StoreOp("get_provider", args, now, None, get_provider(store, pt, n))
  /\ pc' = "queried"
  /\ UNCHANGED <<store, now, handle, apart>>

NextStore ==
  \/ DbConnect
  \/ AddProvider
  \/ SaveProvider
  \/ GetQuery

SpecStore == InitStore /\ [][NextStore]_vars

(* ------------------- _extract_form_params on its own ------------------ *)
\* the name and value attributes an input element may carry (None: the
\* attribute is missing)
InputNames == {None, "", "csrf_token", "note"}
InputValues == {None, "", "abc"}
InputSeqs ==
  UNION { [1..n -> {Input(nm, v) : nm \in InputNames, v \in InputValues}] : n \in 0..MaxInputs }
\* the documents: the selector finds a form with these inputs, or finds none
Forms == { [exists |-> e, action |-> <<>>, inputs |-> ins] : e \in BOOLEAN, ins \in InputSeqs }

InitForm ==
  /\ soup \in Forms
  /\ extracted = EmptyDict
  /\ runs = NoRuns
  /\ serial = TRUE
  /\ pc = "extract"
  /\ store = {}
  /\ provider = "jkforum"
  /\ nameArg = NoName
  /\ db_url = "mongodb://host"
  /\ unwinding = None
  /\ exit_status = NoExit
  /\ now = 0
  /\ client = None
  /\ collection = None
  /\ session = None
  /\ sessions = 0
  /\ providers = <<>>
  /\ idx = 0
  /\ base_url = <<>>
  /\ headers = EmptyDict
  /\ selected_uids = <<>>
  /\ pending = NoCall
  /\ tasks = {}
  /\ op = Idle
  /\ calls = EmptyBag
  /\ resp = NoResponse
  /\ text = NoText
  /\ reply = NoResponse
  /\ invoked = [n \in Names |-> 0]
  /\ report = [n \in Names |-> [status |-> "none", exc |-> None]]

\* one call of _extract_form_params
ExtractFormParams ==
  /\ pc = "extract"
  /\ extracted' = _extract_form_params(soup)
  /\ pc' = "extracted"
  /\ UNCHANGED <<store, provider, nameArg, db_url, now, soup, runs, serial, process, handle,
                 http, providers, idx, base_url, headers, selected_uids,
                 pending, tasks, op, calls, seen, invoked, report>>

NextForm == ExtractFormParams

SpecForm == InitForm /\ [][NextForm]_vars

(* --------------- several run() invocations on the one handle ---------- *)
\* a process that calls run() MaxRuns times, on the module-level handle of
\* db.py:127: one call after the other has returned, or overlapping
InitShared ==
  /\ store \in Stores
  /\ serial \in BOOLEAN
  /\ runs = NoRuns
  /\ pc = "shared"
  /\ provider = "jkforum"
  /\ nameArg = NoName
  /\ db_url = "mongodb://host"
  /\ unwinding = None
  /\ exit_status = NoExit
  /\ now = 0
  /\ soup = NoForm
  /\ extracted = EmptyDict
  /\ client = None
  /\ collection = None
  /\ session = None
  /\ sessions = 0
  /\ providers = <<>>
  /\ idx = 0
  /\ base_url = <<>>
  /\ headers = EmptyDict
  /\ selected_uids = <<>>
  /\ pending = NoCall
  /\ tasks = {}
  /\ op = Idle
  /\ calls = EmptyBag
  /\ resp = NoResponse
  /\ text = NoText
  /\ reply = NoResponse
  /\ invoked = [n \in Names |-> 0]
  /\ report = [n \in Names |-> [status |-> "none", exc |-> None]]

\* what the invocations leave alone between them
beside == <<store, provider, nameArg, db_url, now, soup, extracted, serial, process,
            http, providers, idx, base_url, headers, selected_uids, pending, tasks,
            op, calls, seen, invoked, report, pc>>

\* the invocation r is between its connect() and its close()
Active(r) == runs[r].at \in {"query", "work", "close"}
\* the invocation r goes to at, its last store operation having ended as o
Goes(r, at, o) == runs' = [runs EXCEPT ![r] = [at |-> at, op |-> o]]

\* base.py:105 with MongoDB.connect, db.py:25-36: on a handle that has its
\* collection connect() returns at once; else it makes the client if there
\* is none, sets the collection and creates the index
RunConnect ==
  /\ pc = "shared"
  /\ \E r \in Runners :
       /\ runs[r].at = "idle"
       /\ serial => \A q \in Runners \ {r} : ~Active(q)
       /\ IF collection # None
          THEN /\ Goes(r, "query", Returned("connect", Str("connected")))
               /\ UNCHANGED handle
          ELSE \E out \in {"ok", "client_fails", "index_fails"} :
                 /\ out = "client_fails" => client = None
                 /\ client' = IF out = "client_fails" THEN client ELSE "client"
                 /\ collection' = IF out = "client_fails" THEN None ELSE "providers"
                 /\ IF out = "ok"
                    THEN Goes(r, "query", Returned("connect", Str("connected")))
                    ELSE Goes(r, "close", Raised("connect", "PyMongoError"))
  /\ UNCHANGED beside

\* base.py:107-113 with MongoDB.get_provider, db.py:116-123: the find on
\* the handle's collection; on a handle whose collection is None the
\* attribute access raises, and run()'s outer except leads to the finally
RunQuery ==
  /\ pc = "shared"
  /\ \E r \in Runners :
       /\ runs[r].at = "query"
       /\ IF collection = None
          THEN Goes(r, "close", Raised("get_provider", "AttributeError"))
          ELSE \E ok \in BOOLEAN :
                 IF ok
                 THEN LET found == get_provider(store, provider, nameArg)
                      IN Goes(r, IF found = <<>> THEN "close" ELSE "work",
                              Returned("get_provider", List(found)))
                 ELSE Goes(r, "close", Raised("get_provider", "PyMongoError"))
  /\ UNCHANGED <<handle, beside>>

\* base.py:115-132: the batch loop over the records; it does not touch the
\* handle
RunHandlers ==
  /\ pc = "shared"
  /\ \E r \in Runners :
       /\ runs[r].at = "work"
       /\ Goes(r, "close", runs[r].op)
  /\ UNCHANGED <<handle, beside>>

\* base.py:135-136 with BaseProvider.close and MongoDB.close
RunClose ==
  /\ pc = "shared"
  /\ \E r \in Runners :
       /\ runs[r].at = "close"
       /\ Goes(r, "done", runs[r].op)
  /\ db_close
  /\ UNCHANGED beside

NextShared ==
  \/ RunConnect
  \/ RunQuery
  \/ RunHandlers
  \/ RunClose

SpecShared == InitShared /\ [][NextShared]_vars

(* ------------------------------ properties ---------------------------- *)
\* the record whose handler ended last
LastName == providers[idx - 1][1]
\* the response is a body without / with the logout marker
Unauthenticated(r) == ~r.err /\ ~Contains(r.body, LOGOUT_MARKER)
Authenticated(r) == ~r.err /\ Contains(r.body, LOGOUT_MARKER)
\* a child task has ended
Ended(t) == t.st \in {"done", "true", "false"} \/ IsException(t.st)
\* the main line leaves the gather of poke() in this step
PokeEnds == pc = "poke_gather" /\ pc' # "poke_gather"

\* C1: in run(), the handler is invoked exactly once for every record of the
\* batch and every record is reported, whichever handlers raise or return a
\* failure result: the records before the loop position were each invoked
\* once and reported, the records after it not yet, and a run that got a
\* non-empty batch ends only after the last record.
C1_EveryRecordHandledOnce ==
  /\ \A k \in 1..Len(providers) :
       LET n == providers[k][1]
       IN /\ k < idx => invoked[n] = 1 /\ report[n].status # "none"
          /\ k = idx => invoked[n] = (IF pc = "loop" THEN 0 ELSE 1) /\ report[n].status = "none"
          /\ k > idx => invoked[n] = 0 /\ report[n].status = "none"
  /\ \A n \in Names : (\A k \in 1..Len(providers) : providers[k][1] # n) => invoked[n] = 0
  /\ (pc \in {"close", "done"} /\ providers # <<>>) => idx = Len(providers) + 1

\* C1 witness: a finished run whose first record failed by exception and
\* whose second record was processed and reported as a success
C1_Witness ==
  /\ pc = "done"
  /\ Len(providers) >= 2
  /\ report[providers[1][1]].status = "exception"
  /\ report[providers[2][1]].status = "success"
  /\ invoked[providers[2][1]] = 1

\* C2: when run() has ended, the store handle is released (client and
\* collection cleared) and the HTTP session is closed and reset to empty.
C2_ReleasedAtEnd ==
  pc = "done" => client = None /\ collection = None /\ session = None

\* C2 witness: a run has ended in which HTTP calls were made (a network error
\* was reported for a record) and everything is released
C2_Witness ==
  /\ pc = "done"
  /\ \E n \in Names : report[n].exc = "ClientError"
  /\ client = None /\ session = None

\* C3 (as stated): a handler invocation in which an authentication check
\* failed never ends as a success - including a check that failed in a
\* per-UID poke page fetch.
C3_AuthFailureNeverSuccess ==
  [][\A n \in Names :
       (\E t \in tasks : t.owner = n /\ t.kind = "poke" /\ t.st = "AuthenticationError")
         => report'[n].status # "success"]_vars

\* C3 (amended): when request() raises AuthenticationError on the main line
\* of the handler (user_info, the user scan of views or poke, the page fetch
\* of sign), the error leaves the operation and the handler, and run()
\* reports that record as failed by AuthenticationError.
C3_MainLineAuthFailureFailsRecord ==
  Unauthenticated(resp) =>
    /\ idx >= 2
    /\ report[LastName] = [status |-> "exception", exc |-> "AuthenticationError"]
    /\ op.status = "raised"

\* C3 witness: the page fetch of sign() failed its check and the record is
\* reported as failed
C3_Witness ==
  /\ Unauthenticated(resp)
  /\ op = Raised("sign", "AuthenticationError")
  /\ report[LastName].status = "exception"

\* C4: request() raises AuthenticationError and hands back no body when the
\* body lacks the logout marker, and then nothing more is sent for that call
\* (no retry); it hands back the body unchanged when the marker is present.
\* For a per-UID poke page that failed the check, the one GET is all that
\* child has sent.
C4_RequestChecksLogoutMarker ==
  /\ Unauthenticated(resp) =>
       /\ text = NoText
       /\ op.status = "raised" /\ op.val.exc = "AuthenticationError"
       /\ BagCardinality(calls) = 1
  /\ Authenticated(resp) =>
       /\ text = resp.body
       /\ ~(op.status = "raised" /\ op.val.exc = "AuthenticationError")
  /\ \A t \in tasks :
       (t.kind = "poke" /\ t.st = "AuthenticationError" /\ pc = "poke_gather") =>
         \A c \in BagToSet(calls) : c.task = t.i => c.method = "GET" /\ CopiesIn(c, calls) = 1

\* C4 witness: the user scan of views() received a body without the marker
C4_Witness ==
  /\ Unauthenticated(resp)
  /\ op = Raised("views", "AuthenticationError")
  /\ text = NoText

\* C5: when a per-UID operation of poke() has failed, poke() does not raise
\* and no sibling is cancelled: either the gather goes on with every child
\* kept (ended children as they ended), or every child has ended and poke()
\* returns to a handler that succeeds; the returned list has one entry per
\* child that returned True and none for the failed uid.
C5_PokeIsolatesFailures ==
  [][(pc = "poke_gather" /\ \E t \in MyTasks("poke") : IsException(t.st)) =>
       \/ /\ pc' = "poke_gather"
          /\ UNCHANGED <<op, report, idx>>
          /\ \A t \in MyTasks("poke") :
               \E u \in tasks' : /\ u.owner = t.owner /\ u.kind = t.kind /\ u.i = t.i
                                 /\ Ended(t) => u = t
       \/ /\ \A t \in MyTasks("poke") : Ended(t)
          /\ op'.name = "poke" /\ op'.status = "returned"
          /\ report'[CurName].status = "success"
          /\ Len(op'.val.l) = Cardinality({t \in MyTasks("poke") : t.st = "true"})
          /\ \A t \in MyTasks("poke") :
               (/\ IsException(t.st)
                /\ \A u \in MyTasks("poke") :
                     u.st = "true" => selected_uids[u.i] # selected_uids[t.i])
                 => \A k \in 1..Len(op'.val.l) :
                      op'.val.l[k] # Confirmation(selected_uids[t.i])]_vars

\* C5 witness: in one gather of poke(), one child has failed with an
\* exception and a sibling has run to completion and returned True
C5_Witness ==
  /\ pc = "poke_gather"
  /\ \E t, u \in MyTasks("poke") : IsException(t.st) /\ u.st = "true"

\* C6: poke() on a population larger than 2 returns exactly as many entries
\* as there are per-UID operations whose POST got a response containing the
\* success marker, and every entry names a uid of the sampled list.
C6_OneEntryPerSuccessResponse ==
  [][PokeEnds =>
       LET K == Cardinality({t \in MyTasks("poke") :
                               ~t.reply.err /\ Contains(t.reply.body, SUCCESS_TEXT)})
       IN /\ op'.name = "poke" /\ op'.status = "returned" /\ op'.val.t = "list"
          /\ Len(op'.val.l) = K
          /\ \A k \in 1..Len(op'.val.l) :
               \E i \in 1..Len(selected_uids) :
                 op'.val.l[k] = Confirmation(selected_uids[i])]_vars

\* C6 witness: poke() has returned a list with one entry although more than
\* one uid was sampled (K = 1 < N)
C6_Witness ==
  /\ op.name = "poke" /\ op.status = "returned"
  /\ Len(op.val.l) = 1
  /\ Len(ScanUids(text.buddy)) > MIN_USER_COUNT

\* C7 (as stated): views() on a population larger than 2 ends by reporting
\* the count of profile views attempted, whatever the outcome of the
\* individual fetches.
C7_ViewsReportsCountAttempted ==
  (/\ op.name = "views" /\ op.status \in {"returned", "raised"}
   /\ Authenticated(resp)
   /\ Len(ScanUids(resp.body.buddy)) > MIN_USER_COUNT)
    => op = Returned("views", Viewed(VIEW_COUNT))

\* C8 (as stated): no profile-view request is in flight unless the views()
\* call that dispatched it is still waiting in its gather.
C8_NoViewInFlightAfterViews ==
  \A t \in tasks :
    (t.kind = "view" /\ t.st = "flight") => (pc = "views_gather" /\ t.owner = CurName)

\* C9: views() and poke() on a population of at most 2 uids return their
\* sentinel ("No users found", the empty list) having sent the scan request
\* and nothing else; they dispatch per-UID requests only on a population
\* larger than 2.
C9_SmallPopulationSendsNothing ==
  /\ (/\ op.name \in {"views", "poke"} /\ op.status = "returned"
      /\ Len(ScanUids(text.buddy)) <= MIN_USER_COUNT)
       => /\ op.val = (IF op.name = "views" THEN Str("No users found") ELSE List(<<>>))
          /\ BagCardinality(calls) = 1
          /\ \A c \in BagToSet(calls) :
               c.method = "GET" /\ c.url.page = "search" /\ c.task = 0
  /\ (op.name \in {"views", "poke"} /\ op.status = "running")
       => Len(ScanUids(text.buddy)) > MIN_USER_COUNT

\* C9 witness: poke() scanned exactly 2 uids and returned the empty list
\* after one call
C9_Witness ==
  /\ op = Returned("poke", List(<<>>))
  /\ Len(ScanUids(text.buddy)) = MIN_USER_COUNT
  /\ BagCardinality(calls) = 1

\* C10: sign() returns the "already signed" marker after exactly one call
\* when the fetched page contains it; otherwise it sends exactly one more
\* request, a POST to the form's action resolved against the base URL with
\* inajax=1, and returns the body of that response.
C10_SignShortCircuit ==
  (op.name = "sign" /\ op.status = "returned") =>
    IF Contains(text, SIGN_TEXT)
    THEN /\ op.val = Str(SIGN_TEXT)
         /\ BagCardinality(calls) = 1
         /\ \A c \in BagToSet(calls) : c.method = "GET" /\ c.url = SignUrl(base_url)
         /\ reply = NoResponse
    ELSE /\ BagCardinality(calls) = 2
         /\ \E c \in BagToSet(calls) :
              /\ c.method = "POST"
              /\ c.url.base = base_url /\ c.url.page = "action" /\ c.url.inajax
              /\ c.url.arg = (IF text.form.exists
                              THEN <<"plugin.php?operation=qiandao">> ELSE <<>>)
         /\ ~reply.err
         /\ op.val = Text(reply.body)

\* C10 witness: sign() found the marker and returned it after one call
C10_Witness ==
  /\ op = Returned("sign", Str(SIGN_TEXT))
  /\ Contains(text, SIGN_TEXT)
  /\ BagCardinality(calls) = 1

\* the positions of the inputs of a form that carry a name
NamedInputs(form) ==
  {k \in 1..Len(form.inputs) : form.inputs[k].name \notin {None, ""}}
\* data holds exactly the named inputs of form and the overridden keys, and
\* every field that is not overridden has the value the form gave it ("" for
\* an input without a value; the last input of a name counts)
SentBack(form, data, overridden) ==
  /\ DOMAIN data = {form.inputs[k].name : k \in NamedInputs(form)} \cup overridden
  /\ \A k \in NamedInputs(form) :
       LET f == form.inputs[k]
       IN (/\ f.name \notin overridden
           /\ \A j \in NamedInputs(form) : j > k => form.inputs[j].name # f.name)
            => data[f.name] = (IF f.value = None THEN "" ELSE f.value)

\* C11: the parameters sign() and a per-UID poke operation POST are exactly
\* the named inputs of the form they fetched, each with the value it had in
\* the form, except for the overridden keys: todaysay = "hello" for sign,
\* iconid and note = "hello" for poke.
C11_FormFieldsSentBack ==
  /\ op = Running("sign") =>
       /\ pending.method = "POST"
       /\ CopiesIn(pending, calls) = 1
       /\ SentBack(text.form, pending.data, {"todaysay"})
       /\ pending.data["todaysay"] = "hello"
  /\ pc = "poke_gather" =>
       \A t \in MyTasks("poke") : t.st = "post" =>
         /\ \E c \in BagToSet(calls) : c.task = t.i /\ c.method = "POST"
         /\ \A c \in BagToSet(calls) :
              (c.task = t.i /\ c.method = "POST") =>
                /\ SentBack(t.reply.body.form, c.data, {"iconid", "note"})
                /\ c.data["iconid"] = POKE_DEFAULT_ICONID
                /\ c.data["note"] = "hello"

\* C11 witness: a per-UID poke operation has fetched its form and sent its
\* POST, which carries the hidden formhash field with the form's value
C11_Witness ==
  /\ pc = "poke_gather"
  /\ \E t \in MyTasks("poke") :
       /\ t.st = "post"
       /\ t.reply.body.form.exists
       /\ \E c \in BagToSet(calls) :
            c.task = t.i /\ c.method = "POST" /\ c.data["formhash"] = "abc"

\* C12: _extract_form_params returns the empty map when the selector finds
\* no form; otherwise a map whose keys are the names of the inputs that have
\* a (non-empty) name, each with its input's value, "" when the value is
\* missing.  Inputs {csrf_token: "abc", note: ""} give
\* {csrf_token: "abc", note: ""}.
C12_ExtractFormParams ==
  pc = "extracted" =>
    /\ ~soup.exists => extracted = EmptyDict
    /\ soup.exists =>
         /\ DOMAIN extracted =
              {soup.inputs[k].name : k \in {j \in 1..Len(soup.inputs) :
                                              soup.inputs[j].name \notin {None, ""}}}
         /\ \A nm \in DOMAIN extracted :
              \E k \in 1..Len(soup.inputs) :
                /\ soup.inputs[k].name = nm
                /\ \A j \in (k + 1)..Len(soup.inputs) : soup.inputs[j].name # nm
                /\ extracted[nm] = (IF soup.inputs[k].value = None THEN ""
                                    ELSE soup.inputs[k].value)
    /\ (soup.exists /\ soup.inputs = <<Input("csrf_token", "abc"), Input("note", "")>>)
         => extracted = [csrf_token |-> "abc", note |-> ""]

\* C12 witness: a form whose note input has no value attribute was
\* extracted to {csrf_token: "abc", note: ""}
C12_Witness ==
  /\ pc = "extracted"
  /\ soup.exists
  /\ soup.inputs = <<Input("csrf_token", "abc"), Input("note", None)>>
  /\ extracted = [csrf_token |-> "abc", note |-> ""]

\* C13: after any sequence of add_provider and save_provider operations,
\* every entry get_provider returns is the (name, data) of a stored document
\* that is enabled, of the requested type, and of the requested name when
\* one is given; the name of a disabled document of that type is never in
\* the list.
C13_GetReturnsOnlyEnabled ==
  (op.name = "get_provider" /\ op.status = "returned") =>
    LET a == op.val.args
        l == op.val.result
    IN /\ \A k \in 1..Len(l) :
            \E d \in store : /\ d.name = l[k][1]
                              /\ d.data = l[k][2]
                              /\ d.provider_type = a.provider_type
                              /\ d.status = STATUS_ENABLED
                              /\ a.name # NoName => d.name = a.name
       /\ \A d \in store :
            (d.status = STATUS_DISABLED /\ d.provider_type = a.provider_type)
              => \A k \in 1..Len(l) : l[k][1] # d.name

\* C13 witness: get_provider returned one record of a type of which the
\* store also holds a disabled record
C13_Witness ==
  /\ op.name = "get_provider" /\ op.status = "returned"
  /\ Len(op.val.result) = 1
  /\ op.val.args.name = NoName
  /\ \E d \in store : /\ d.provider_type = op.val.args.provider_type
                        /\ d.status = STATUS_DISABLED

\* C14: add_provider with a key (provider_type, name) the store already
\* holds raises and leaves the store as it was; with a new key it inserts;
\* and after every add or save no two documents share a key.
C14_AddRefusesExistingKey ==
  [][/\ (op'.name = "add_provider" /\ now' # now) =>
          LET a == op'.val.args
          IN IF Existing(store, a.provider_type, a.name) # {}
             THEN op'.status = "raised" /\ store' = store
             ELSE op'.status = "returned"
     /\ \A d1, d2 \in store' :
          (d1.provider_type = d2.provider_type /\ d1.name = d2.name) => d1 = d2]_vars

\* C14 witness: an add_provider with other data and status for a key in
\* the store was refused
C14_Witness ==
  /\ op.name = "add_provider" /\ op.status = "raised"
  /\ op.val.exc = "DuplicateKeyError"
  /\ \E d \in Existing(store, op.val.args.provider_type, op.val.args.name) :
       d.data # op.val.args.data /\ d.status # op.val.args.status

\* C15: save_provider returns, and afterwards the store holds exactly one
\* document of the key, with the data and status given and updated_at the
\* instant of the call; created_at is that of the document the key had
\* before, if it had one; the documents of the other keys are untouched.
C15_SaveUpserts ==
  [][(op'.name = "save_provider" /\ now' # now) =>
       LET a == op'.val.args
           old == Existing(store, a.provider_type, a.name)
           new == Existing(store', a.provider_type, a.name)
       IN /\ op'.status = "returned"
          /\ Cardinality(new) = 1
          /\ \A e \in new :
               /\ e.data = a.data
               /\ e.status = a.status
               /\ e.updated_at = op'.val.at
               /\ \A o \in old : e.created_at = o.created_at
          /\ store' \ new = store \ old]_vars

\* C15 witness: a save has overwritten the data and status of a document
\* created at an earlier instant
C15_Witness ==
  /\ op.name = "save_provider" /\ op.status = "returned"
  /\ \E d \in Existing(store, op.val.args.provider_type, op.val.args.name) :
       /\ d.created_at < d.updated_at
       /\ d.updated_at = op.val.at
       /\ d.data = op.val.args.data

\* the positions run() is at while a handler runs
HandlerPcs == {"user_info", "views", "views_gather", "sign", "sign_post",
               "poke", "poke_gather", "afraid"}
\* the enabled documents the run was started for
Matching ==
  {d \in store : /\ d.provider_type = provider
                 /\ d.status = STATUS_ENABLED
                 /\ nameArg # NoName => d.name = nameArg}

\* C16 (as stated): while the handler of a record runs, every request in
\* flight belongs to that record: the work of the records before it,
\* the requests of their views/poke fan-out included, has completed.
C16_RecordsNeverOverlap ==
  pc \in HandlerPcs => \A t \in tasks : t.owner = CurName

\* C17: run() invokes the handlers in ascending order of record name: the
\* list it iterates is sorted by name, and of two enabled records of the run
\* the one with the greater name has not been invoked before the other.
C17_HandlersInNameOrder ==
  /\ \A i, j \in 1..Len(providers) : i < j => providers[i][1] < providers[j][1]
  /\ \A a, b \in Matching :
       (a.name < b.name /\ invoked[b.name] > 0) => invoked[a.name] > 0

\* C17 witness: of two enabled records the handler of the first is running
\* and the second has not been invoked yet
C17_Witness ==
  /\ Len(providers) = 2
  /\ pc \in HandlerPcs
  /\ idx = 1
  /\ invoked[providers[1][1]] = 1
  /\ invoked[providers[2][1]] = 0
  /\ providers[1][1] < providers[2][1]

\* run() came to its end having connected, queried and handled every record
CompletedInFull ==
  /\ unwinding = None
  /\ \/ op.name = "get_provider" /\ op.status = "returned"
     \/ providers # <<>> /\ idx = Len(providers) + 1

\* C18 (as stated): the process exits with status zero exactly when the
\* run completed in full: store connected, records queried, the handler
\* invoked for every returned record.
C18_ExitZeroIffCompleted ==
  pc = "exit" => (exit_status = 0 <=> CompletedInFull)

\* C19: a run for which the store holds no enabled record of the type (and
\* name) invokes no handler, makes no HTTP call and opens no session; its
\* query returns the empty list, run() goes to its end without an exception
\* and with the store handle released, and the process exits with 0.
C19_NoRecordsNoWork ==
  Matching = {} =>
    /\ \A n \in Names : invoked[n] = 0 /\ report[n].status = "none"
    /\ calls = EmptyBag /\ session = None /\ tasks = {}
    /\ (op.name = "get_provider" /\ op.status = "returned") =>
         /\ op.val.l = <<>>
         /\ pc \in {"close", "done", "exit"}
         /\ unwinding = None
         /\ pc = "exit" => exit_status = 0
    /\ pc \in {"done", "exit"} => client = None /\ collection = None

\* C19 witness: a run whose type has records in the store, none of them
\* enabled, has ended after an empty query with the handle released
C19_Witness ==
  /\ pc = "done"
  /\ op = Returned("get_provider", List(<<>>))
  /\ \E d \in store : d.provider_type = provider /\ d.status = STATUS_DISABLED
  /\ client = None /\ collection = None

\* the positions of the sampled list whose child got a response with the
\* success marker, and the k-th of them in list order
SuccessPositions ==
  {i \in 1..Len(selected_uids) :
     \E t \in MyTasks("poke") :
       t.i = i /\ ~t.reply.err /\ Contains(t.reply.body, SUCCESS_TEXT)}
NthSuccess(k) ==
  CHOOSE i \in SuccessPositions : Cardinality({j \in SuccessPositions : j <= i}) = k

\* C20: whatever the order in which the children of poke() completed, the
\* list poke() returns has one entry per sampled position whose own
\* response contained the success marker, each naming the uid sampled at
\* that position, in the order of the sampled list.
C20_ResultsPairedByPosition ==
  [][PokeEnds =>
       /\ op'.name = "poke" /\ op'.status = "returned" /\ op'.val.t = "list"
       /\ Len(op'.val.l) = Cardinality(SuccessPositions)
       /\ \A k \in 1..Len(op'.val.l) :
            op'.val.l[k] = Confirmation(selected_uids[NthSuccess(k)])]_vars

\* C20 witness: every child of a poke() has ended; the child of the first
\* position did not succeed, a child of a later position with another uid
\* did
C20_Witness ==
  /\ pc = "poke_gather"
  /\ \A t \in MyTasks("poke") : Ended(t)
  /\ \E t, u \in MyTasks("poke") :
       /\ t.i = 1 /\ t.st # "true"
       /\ u.i > 1 /\ u.st = "true"
       /\ selected_uids[t.i] # selected_uids[u.i]

\* the steps in which fetch() hands a call to session.request
IssuesCall ==
  \/ pc \in {"user_info", "views", "sign", "poke", "afraid"} /\ calls' # EmptyBag
  \/ /\ pc = "poke_gather"
     /\ \E t \in MyTasks("poke") : \E u \in tasks' :
          u.owner = t.owner /\ u.kind = "poke" /\ u.i = t.i /\ t.st = "page" /\ u.st = "post"

\* C21: the provider constructs its HTTP session on the first HTTP call and
\* not before; while it has a session no other one is constructed, whether
\* the call is made by the main line or by a child of a fan-out; every call
\* finds a session; and close_session() without a session changes nothing.
C21_OneLazySession ==
  [][/\ sessions' \in {sessions, sessions + 1}
     /\ sessions' # sessions => session = None /\ session' # None /\ IssuesCall
     /\ session # None => sessions' = sessions
     /\ IssuesCall => session' # None
     /\ (session # None /\ session' = None) => pc = "close"
     /\ (pc = "close" /\ session = None) => session' = None /\ sessions' = sessions]_vars

\* C21 witness: the handler of the second record is in the fan-out of its
\* poke(), a child has sent its POST, and the provider has constructed one
\* session since it started
C21_Witness ==
  /\ pc = "poke_gather"
  /\ idx = 2
  /\ \E t \in MyTasks("poke") : t.st = "post"
  /\ session # None
  /\ sessions = 1

\* C22: no step of run(), of a handler or of the process around them changes
\* the collection: the documents and each one's data, status, created_at and
\* updated_at stay as they were, whatever the handlers do; the list run()
\* works on is what the one query for the enabled records of its type gave.
C22_RunLeavesStoreAlone ==
  [][/\ store' = store
     /\ providers' # providers =>
          /\ pc = "query"
          /\ providers' = get_provider(store, provider, nameArg)]_vars

\* C22 witness: the process has exited after a run over two records, one
\* handler having raised and the other having returned its success result
C22_Witness ==
  /\ pc = "exit"
  /\ Len(providers) = 2
  /\ \E n, m \in Names :
       /\ report[n].status = "exception"
       /\ report[m].status = "success"
  /\ \A d \in store : d.created_at = 0 /\ d.updated_at = 0

\* the calls a step of a Jkforum handler issues carry the base URL and the
\* cookie of the record the handler was invoked for
BuiltFromCurrent ==
  (provider = "jkforum" /\ pc \in HandlerPcs /\ calls' # calls) =>
    \A c \in BagToSet(calls') :
      /\ c.url.base = CurData.base_url
      /\ "Cookie" \in DOMAIN c.headers
      /\ c.headers["Cookie"] = CurData.cookie

\* when the handler call ends, the provider holds neither the base URL nor
\* the headers of its record any more
ContextDiscarded ==
  (pc \in HandlerPcs /\ pc' \notin HandlerPcs) =>
    /\ base_url' = <<>>
    /\ headers' = EmptyDict

\* C23 (as stated): every request issued while the handler of a record runs
\* is built from that record's base URL and cookie, and this context lives
\* from the start of the handler call to its end: it is discarded when the
\* call ends.
C23_ContextOwnedByInvocation ==
  [][BuiltFromCurrent /\ ContextDiscarded]_vars

\* where the Jkforum handler stands in each of its engine operations
OpPcs(name) ==
  CASE name = "user_info" -> {"user_info"}
    [] name = "views" -> {"views", "views_gather"}
    [] name = "sign" -> {"sign", "sign_post"}
    [] name = "poke" -> {"poke", "poke_gather"}
\* the operation the handler calls after name, None after the last
After(name) ==
  CASE name = "user_info" -> "views"
    [] name = "views" -> "sign"
    [] name = "sign" -> "poke"
    [] name = "poke" -> None
\* a step that takes the handler out of where it stood in the operation
\* name: it stays in the operation; or the operation has returned, nothing
\* of it is left in flight and the next one starts; or the operation has
\* raised and the handler has ended with the exception; or the last
\* operation has returned and the handler has ended with its success result
LeavesInOrder(name) ==
  (pc \in OpPcs(name) /\ pc' # pc) =>
    \/ pc' \in OpPcs(name)
    \/ /\ After(name) # None
       /\ pc' \in OpPcs(After(name))
       /\ op'.name = name /\ op'.status = "returned"
       /\ \A t \in tasks' : t.owner # CurName
       /\ report'[CurName].status = "none"
    \/ /\ pc' \in {"loop", "close"}
       /\ op'.name = name /\ op'.status = "raised"
       /\ report'[CurName].status = "exception"
    \/ /\ After(name) = None
       /\ pc' \in {"loop", "close"}
       /\ op'.name = name /\ op'.status = "returned"
       /\ \A t \in tasks' : t.owner # CurName
       /\ report'[CurName].status = "success"

\* C24: the Jkforum handler starts user_info when it is invoked, views when
\* user_info has returned, sign when views has returned and poke when sign
\* has returned, nothing of the ended operation being left in flight; an
\* operation that raises ends the handler without another operation being
\* started; and the success result is reported only as poke returns.
C24_FourOperationsInOrder ==
  [][provider = "jkforum" =>
       /\ (pc' = "user_info" /\ pc # "user_info") => pc = "loop"
       /\ \A name \in {"user_info", "views", "sign", "poke"} : LeavesInOrder(name)
       /\ \A n \in Names :
            (report'[n] # report[n] /\ report'[n].status = "success") =>
              pc \in OpPcs("poke")]_vars

\* C24 witness: a Jkforum handler has returned its success result, its
\* poke() having confirmed a user after a views() that viewed profiles
C24_Witness ==
  /\ provider = "jkforum"
  /\ pc \in {"loop", "close"}
  /\ idx > 1
  /\ report[providers[idx - 1][1]].status = "success"
  /\ op.name = "poke" /\ op.status = "returned"
  /\ op.val.l # <<>>

\* the invocation r leaves at in this step
Leaves(r, at) == runs[r].at = at /\ runs'[r].at # at

\* C25: all run() invocations of a process work on one handle.  When each
\* invocation has returned before the next starts, a query finds the handle
\* connected and does not fail for want of a collection, and a connect()
\* that returns, after an earlier close() too, leaves a client and a
\* collection.  connect() on a handle that has its collection changes
\* nothing.  When invocations overlap, the close() of one leaves the handle
\* without client and collection while another is between its connect()
\* and its close().
C25_SharedHandle ==
  [][\A r \in Runners :
       /\ (serial /\ Leaves(r, "query")) =>
            /\ client # None /\ collection # None
            /\ runs'[r].op.name = "get_provider"
            /\ runs'[r].op.status = "raised" => runs'[r].op.val.exc # "AttributeError"
       /\ (serial /\ Leaves(r, "idle")) => collection = None
       /\ (Leaves(r, "idle") /\ runs'[r].op.status = "returned") =>
            client' # None /\ collection' # None
       /\ (Leaves(r, "idle") /\ collection # None) =>
            /\ UNCHANGED handle
            /\ runs'[r].op = Returned("connect", Str("connected"))
       /\ (Leaves(r, "close") /\ \E q \in Runners \ {r} : Active(q)) =>
            /\ ~serial
            /\ client' = None /\ collection' = None]_vars

\* C25 witness: in a process that awaits each run() before the next, the
\* first invocation has closed the handle and the second has connected
\* again and got its records
C25_Witness ==
  /\ serial
  /\ runs[1].at = "done"
  /\ runs[1].op.name = "get_provider" /\ runs[1].op.status = "returned"
  /\ runs[2].at = "work"
  /\ runs[2].op = Returned("get_provider", List(get_provider(store, provider, nameArg)))
  /\ collection # None

====
